---- MODULE Spec2Model ----
(***************************************************************************)
(* JbdBt (battery_switch.py): the JBD BMS protocol driver.  Frame          *)
(* assembly from notification chunks, command/response correlation with    *)
(* timeout, the read/write frame encoders and the MOSFET switch control.   *)
(* Bytes are integers 0..255, byte strings are sequences of them.          *)
(***************************************************************************)
EXTENDS Integers, Sequences, FiniteSets, TLC

(* ---------------------------------------------------------------- bounds *)
\* calls made on the instance in one run
MaxCalls == 2
\* notification chunks the device delivers in one run
MaxNotify == 2
\* longest data argument given to jbd_checksum / jbd_message
MaxDataLen == 2
\* longest payload of a streamed response frame
MaxPayload == 2

(* ------------------------------------------------------ program constants *)
TIMEOUT == 16
TERMINATOR == 119
START == 221
CMD_INFO == 3
CMD_VOLTAGES == 4
CMD_MOS == 225
READ_MARK == 165
WRITE_MARK == 90

(* --------------------------------------------------------------- helpers *)
RECURSIVE SumSeq(_)
SumSeq(s) == IF s = <<>> THEN 0 ELSE Head(s) + SumSeq(Tail(s))

\* Python slice s[a:b] with 0-based, clamped bounds (never raises)
Slice(s, a, b) ==
    LET lo == IF a > Len(s) THEN Len(s) ELSE a
        hi == IF b > Len(s) THEN Len(s) ELSE b
    IN  IF hi <= lo THEN <<>> ELSE SubSeq(s, lo + 1, hi)

\* int.from_bytes(s, 'big'), unsigned, of the one- and two-byte slices the
\* decoders take; the empty string gives 0
FromBytes(s) ==
    IF Len(s) = 0 THEN 0
    ELSE IF Len(s) = 1 THEN s[1]
    ELSE s[1] * 256 + s[2]

\* int.from_bytes(s, 'big', signed=True)
FromBytesSigned(s) ==
    LET u == FromBytes(s)
        half == IF Len(s) = 0 THEN 1 ELSE 2 ^ (8 * Len(s) - 1)
    IN  IF Len(s) > 0 /\ u >= half THEN u - 2 * half ELSE u

IsByte(x) == x \in 0..255

(* ------------------------------------------------------ the frame encoders *)
\* The outcome of a call that returns bytes or raises
Ok(v) == [err |-> "", bytes |-> v]
Raise(e) == [err |-> e, bytes |-> <<>>]

\* _jbd_command: bytes([...]) raises ValueError for an element outside 0..255
_jbd_command_off_by_one(command) ==
    LET lo == 255 - command
    IN  IF IsByte(command) /\ IsByte(lo)
        THEN Ok(<<START, READ_MARK, command, 0, 255, lo, TERMINATOR>>)
        ELSE Raise("ValueError")

_jbd_command(command) ==
    LET lo == 255 - (command - 1)
    IN  IF IsByte(command) /\ IsByte(lo)
        THEN Ok(<<START, READ_MARK, command, 0, 255, lo, TERMINATOR>>)
        ELSE Raise("ValueError")

\* jbd_checksum: crc.to_bytes(2, 'big') raises OverflowError outside 0..0xFFFF
jbd_checksum(cmd, data) ==
    LET crc == 65536 - SumSeq(data \o <<Len(data), cmd>>)
    IN  IF crc < 0 \/ crc > 65535
        THEN Raise("OverflowError")
        ELSE Ok(<<crc \div 256, crc % 256>>)

jbd_message(status_bit, cmd, data) ==
    LET sum == jbd_checksum(cmd, data)
    IN  IF sum.err # ""
        THEN sum
        ELSE Ok(<<START, status_bit, cmd, Len(data)>> \o data \o sum.bytes
                  \o <<TERMINATOR>>)

(* ------------------------------------------------------ the frame assembler *)
\* (every frame taken as the answer to the basic-info request)
FrameCommand_always_info(buf) == 3

\* line 30: the command a complete frame answers
FrameCommand(buf) == buf[2]

\* the checksum of a frame's own command, length byte and payload
FrameSum(frame) ==
    LET payload == SubSeq(frame, 5, Len(frame) - 3)
        crc == (65536 - ((frame[2] + frame[4] + SumSeq(payload)) % 65536)) % 65536
    IN  <<crc \div 256, crc % 256>>

BadChecksum(frame) ==
    Len(frame) < 7 \/ SubSeq(frame, Len(frame) - 2, Len(frame) - 1) # FrameSum(frame)

\* (a handler that hands a frame to the dispatcher only when its checksum is right)
_notification_handler_verifies(buf, data) ==
    LET b == buf \o data
    IN  IF b # <<>> /\ b[Len(b)] = TERMINATOR
        THEN IF Len(b) < 2
             THEN [buffer |-> b, complete |-> FALSE, frame |-> <<>>,
                   command |-> -1, err |-> "IndexError"]
             ELSE [buffer |-> <<>>, complete |-> TRUE, frame |-> b,
                   command |-> IF BadChecksum(b) THEN -1 ELSE b[2], err |-> ""]
        ELSE [buffer |-> b, complete |-> FALSE, frame |-> <<>>,
              command |-> -1, err |-> ""]

\* (a handler that reads the command from the chunk instead of the buffer)
_notification_handler_reads_chunk(buf, data) ==
    LET b == buf \o data
    IN  IF b # <<>> /\ b[Len(b)] = TERMINATOR
        THEN IF Len(data) < 2
             THEN [buffer |-> b, complete |-> FALSE, frame |-> <<>>,
                   command |-> -1, err |-> "IndexError"]
             ELSE [buffer |-> <<>>, complete |-> TRUE, frame |-> b,
                   command |-> FrameCommand(data), err |-> ""]
        ELSE [buffer |-> b, complete |-> FALSE, frame |-> <<>>,
              command |-> -1, err |-> ""]

\* _notification_handler on buffer buf and chunk data: the buffer it leaves,
\* and the frame it hands to the dispatcher when it found one.  A buffer that
\* is the terminator alone has no byte 1: the handler raises IndexError
\* before it clears anything.
_notification_handler(buf, data) ==
    LET b == buf \o data
    IN  IF b # <<>> /\ b[Len(b)] = TERMINATOR
        THEN IF Len(b) < 2
             THEN [buffer |-> b, complete |-> FALSE, frame |-> <<>>,
                   command |-> -1, err |-> "IndexError"]
             ELSE [buffer |-> <<>>, complete |-> TRUE, frame |-> b,
                   command |-> FrameCommand(b), err |-> ""]
        ELSE [buffer |-> b, complete |-> FALSE, frame |-> <<>>,
              command |-> -1, err |-> ""]

(* ------------------------------------------------------------- the decoders *)
\* fetch, lines 51-69: slices never raise, buf[19] raises IndexError
NoSwitches == [known |-> FALSE, charge |-> FALSE, discharge |-> FALSE]

\* (the two switches exchanged)
MosSwitchesSwapped(mos_byte) ==
    [known |-> TRUE,
     charge |-> (mos_byte = 2 \/ mos_byte = 3),
     discharge |-> (mos_byte = 1 \/ mos_byte = 3)]

MosSwitches(mos_byte) ==
    [known |-> TRUE,
     charge |-> (mos_byte = 1 \/ mos_byte = 3),
     discharge |-> (mos_byte = 2 \/ mos_byte = 3)]

\* line 64, in tenths of a degree; i is the comprehension's i + 1
Temperatures(buf, num_temp) ==
    [i \in 1..num_temp |->
        FromBytes(Slice(buf, 23 + (i - 1) * 2, (i - 1) * 2 + 25)) - 2731]

\* the outcome of fetch's decoding: <<the BmsSample>>, or the error raised
DecodeSample(frame) ==
    LET buf == Slice(frame, 4, Len(frame))
        num_temp == FromBytes(Slice(buf, 22, 23))
        mos_byte == FromBytes(Slice(buf, 20, 21))
    IN  IF Len(buf) <= 19
        THEN [err |-> "IndexError", sample |-> <<>>]
        ELSE [err |-> "",
              sample |-> <<
                [voltage_x100 |-> FromBytes(Slice(buf, 0, 2)),
                 current_x100 |-> 0 - FromBytesSigned(Slice(buf, 2, 4)),
                 charge_x100 |-> FromBytes(Slice(buf, 4, 6)),
                 capacity_x100 |-> FromBytes(Slice(buf, 6, 8)),
                 soc |-> buf[20],
                 num_cycles |-> FromBytes(Slice(buf, 8, 10)),
                 temperatures_x10 |-> Temperatures(buf, num_temp),
                 switches |-> MosSwitches(mos_byte)] >>]

\* fetch_voltages, lines 76-77: buf[3] raises IndexError on a 2- or 3-byte frame
Voltages(buf, num_cell) ==
    [i \in 1..num_cell |-> FromBytes(Slice(buf, 4 + (i - 1) * 2, (i - 1) * 2 + 6))]

DecodeVoltages(buf) ==
    IF Len(buf) <= 3
    THEN [err |-> "IndexError", voltages |-> <<>>]
    ELSE [err |-> "", voltages |-> Voltages(buf, buf[4] \div 2)]

(* ------------------------------------------------------ the switch controller *)
\* set_switch, lines 95-104
NewSwitches(switches, switch, state) ==
    IF switch = "charge"
    THEN [switches EXCEPT !.charge = state]
    ELSE [switches EXCEPT !.discharge = state]

ControlByteSwapped(switches, switch, state) ==
    LET new_switches == NewSwitches(switches, switch, state)
        switches_sum == (IF new_switches.charge THEN 1 ELSE 0)
                        + (IF new_switches.discharge THEN 1 ELSE 0)
    IN  IF switches_sum = 2 THEN 0
        ELSE IF switches_sum = 0 THEN 3
        ELSE IF (switch = "charge" /\ state) \/ (switch = "discharge" /\ ~state)
             THEN 1
             ELSE 2

ControlByte(switches, switch, state) ==
    LET new_switches == NewSwitches(switches, switch, state)
        switches_sum == (IF new_switches.charge THEN 1 ELSE 0)
                        + (IF new_switches.discharge THEN 1 ELSE 0)
    IN  IF switches_sum = 2 THEN 0
        ELSE IF switches_sum = 0 THEN 3
        ELSE IF (switch = "charge" /\ ~state) \/ (switch = "discharge" /\ state)
             THEN 1
             ELSE 2

(* ------------------------------------------------------------------ state *)
VARIABLES
    _buffer,          \* self._buffer
    _switches,        \* self._switches (NoSwitches when None)
    _last_response,   \* self._last_response: <<>> when None, else <<frame>>
    _fetch_futures,   \* self._fetch_futures: the waiter of each command code
    task,             \* the caller tasks: where each one stands in its call
    calls,            \* calls started so far
    notified,         \* notification chunks delivered so far
    feed,             \* the frame a device streams, and how much of it was sent
    events,           \* the complete frames the handler has emitted from feed
    calc              \* an encoder call: its arguments and its result

vars == <<_buffer, _switches, _last_response, _fetch_futures, task, calls, notified,
          feed, events, calc>>

Tasks == {"t1", "t2"}

(* --------------------------------------------- the waiter pool (FuturesPool) *)
PoolKeys == {CMD_INFO, CMD_VOLTAGES}

NoWaiter == [st |-> "none", val |-> <<>>]

\* acquire(cmd): a slot that is taken is refused, never overwritten
acquire(pool, cmd) == [pool EXCEPT ![cmd] = [st |-> "pending", val |-> <<>>]]

\* set_result(command, buf): resolves the waiter of that command, if one waits
set_result(pool, command, buf) ==
    IF command \in DOMAIN pool /\ pool[command].st = "pending"
    THEN [pool EXCEPT ![command] = [st |-> "done", val |-> buf]]
    ELSE pool

\* remove(cmd): wait_for on its way out, by result or by timeout
remove(pool, cmd) == [pool EXCEPT ![cmd] = NoWaiter]

\* _q, line 45: leaving the `with` block releases the waiter, also on an error
with_exit_leaks(pool, cmd) == pool

with_exit(pool, cmd) == remove(pool, cmd)

\* _q, line 47: wait_for(cmd, self.TIMEOUT) gives up when TIMEOUT has passed
no_deadline(elapsed) == FALSE

deadline_passed(elapsed) == elapsed >= TIMEOUT

(* ------------------------------------------------------------ caller tasks *)
IdleTask ==
    [pc |-> "idle", op |-> "none", switch |-> "", state |-> FALSE, cmd |-> 0,
     elapsed |-> 0, outcome |-> "", buf |-> <<>>,
     sample |-> <<>>, voltages |-> <<>>, sent |-> <<>>,
     basis |-> NoSwitches, tc |-> -1, response |-> <<>>]

NoFeed == [frame |-> <<>>, pos |-> 0]
NoCalc == [phase |-> "none", fn |-> "", cmd |-> 0, data |-> <<>>, out |-> Ok(<<>>)]

Init ==
    /\ _buffer = <<>>
    /\ _switches = NoSwitches
    /\ _last_response = <<>>
    /\ _fetch_futures = [c \in PoolKeys |-> NoWaiter]
    /\ task = [t \in Tasks |-> IdleTask]
    /\ calls = 0
    /\ notified = 0
    /\ feed = NoFeed
    /\ events = <<>>
    /\ calc = NoCalc

\* a task starting its next call: the previous call's results are dropped
NewCall(t, op) == [IdleTask EXCEPT !.op = op]

CanCall(t) == task[t].pc = "idle" /\ calls < MaxCalls /\ calls' = calls + 1

Finish(r, outcome) == [r EXCEPT !.pc = "idle", !.outcome = outcome, !.elapsed = 0]

\* (a _q that starts the write without a waiter registered)
EnterQ_without_waiter(t, r, cmd) ==
    /\ task' = [task EXCEPT ![t] = [r EXCEPT !.pc = "write", !.cmd = cmd]]
    /\ UNCHANGED _fetch_futures

\* _q, line 45: acquire the waiter of cmd, then start the write (line 46)
EnterQ(t, r, cmd) ==
    IF _fetch_futures[cmd].st # "none"
    THEN /\ task' = [task EXCEPT ![t] = Finish([r EXCEPT !.cmd = cmd], "Busy")]
         /\ UNCHANGED _fetch_futures
    ELSE /\ task' = [task EXCEPT ![t] = [r EXCEPT !.pc = "write", !.cmd = cmd]]
         /\ _fetch_futures' = acquire(_fetch_futures, cmd)

\* set_switch, line 81: the assertion on the switch name
any_switch(switch) == TRUE

valid_switch(switch) == switch \in {"charge", "discharge"}

\* set_switch, line 92: `not self._switches` is true of None; the dict that
\* fetch caches has two keys and is true whatever its values
not_switches_or_all_off(switches) ==
    ~switches.known \/ (~switches.charge /\ ~switches.discharge)

not_switches(switches) == ~switches.known

\* set_switch, lines 95-108: the control byte from the cached state, then the
\* write of the 0xE1 frame is started
SendSwitch(r, switches) ==
    [r EXCEPT !.pc = "swrite", !.basis = switches,
              !.tc = ControlByte(switches, r.switch, r.state)]

fetch(t) ==
    /\ CanCall(t)
    /\ EnterQ(t, NewCall(t, "fetch"), CMD_INFO)
    /\ UNCHANGED <<_buffer, _switches, _last_response, notified, feed, events, calc>>

fetch_voltages(t) ==
    /\ CanCall(t)
    /\ EnterQ(t, NewCall(t, "fetch_voltages"), CMD_VOLTAGES)
    /\ UNCHANGED <<_buffer, _switches, _last_response, notified, feed, events, calc>>

set_switch(t, switch, state) ==
    /\ CanCall(t)
    /\ LET r == [NewCall(t, "set_switch") EXCEPT !.switch = switch, !.state = state]
       IN  IF ~valid_switch(switch)
           THEN /\ task' = [task EXCEPT ![t] = Finish(r, "AssertionError")]
                /\ UNCHANGED _fetch_futures
           ELSE IF not_switches(_switches)
           THEN EnterQ(t, r, CMD_INFO)
           ELSE /\ task' = [task EXCEPT ![t] = SendSwitch(r, _switches)]
                /\ UNCHANGED _fetch_futures
    /\ UNCHANGED <<_buffer, _switches, _last_response, notified, feed, events, calc>>

\* (a debug_data that hands the last response out and forgets it)
debug_data_takes(t) ==
    /\ CanCall(t)
    /\ task' = [task EXCEPT ![t] =
                  Finish([NewCall(t, "debug_data") EXCEPT !.response = _last_response],
                         "ok")]
    /\ _last_response' = <<>>
    /\ UNCHANGED <<_buffer, _switches, _fetch_futures, notified, feed, events, calc>>

\* debug_data, line 111: returns self._last_response, and nothing else
debug_data(t) ==
    /\ CanCall(t)
    /\ task' = [task EXCEPT ![t] =
                  Finish([NewCall(t, "debug_data") EXCEPT !.response = _last_response],
                         "ok")]
    /\ UNCHANGED <<_buffer, _switches, _last_response, _fetch_futures, notified,
                   feed, events, calc>>

\* _q, line 46: the transport write of the read request returns
write_done(t) ==
    /\ task[t].pc = "write"
    /\ task' = [task EXCEPT ![t] =
                  [@ EXCEPT !.pc = "wait", !.elapsed = 0,
                            !.sent = Append(@, _jbd_command(task[t].cmd).bytes)]]
    /\ UNCHANGED <<_buffer, _switches, _last_response, _fetch_futures, calls,
                   notified, feed, events, calc>>

\* _q, lines 45-46: the transport write raises, the `with` block releases the waiter
write_failed(t) ==
    /\ task[t].pc = "write"
    /\ task' = [task EXCEPT ![t] = Finish(@, "WriteError")]
    /\ _fetch_futures' = with_exit(_fetch_futures, task[t].cmd)
    /\ UNCHANGED <<_buffer, _switches, _last_response, calls, notified, feed, events,
                   calc>>

\* fetch (lines 50-72), fetch_voltages (75-78) and set_switch (93-108) from
\* the point where _q has returned buf: the task's next position ...
Resumed(r, buf) ==
    LET got == [r EXCEPT !.buf = buf, !.elapsed = 0]
    IN  IF r.op = "fetch_voltages"
        THEN LET d == DecodeVoltages(buf)
             IN  IF d.err # "" THEN Finish(got, d.err)
                 ELSE Finish([got EXCEPT !.voltages = d.voltages], "ok")
        ELSE LET d == DecodeSample(buf)
                 decoded == [got EXCEPT !.sample = d.sample]
             IN  IF d.err # "" THEN Finish(got, d.err)
                 ELSE IF r.op = "set_switch"
                      THEN SendSwitch(decoded, d.sample[1].switches)
                      ELSE Finish(decoded, "ok")

\* ... and the cached switches (line 71)
CachedAfter(r, buf, switches) ==
    LET d == DecodeSample(buf)
    IN  IF r.op \in {"fetch", "set_switch"} /\ d.err = ""
        THEN d.sample[1].switches
        ELSE switches

\* _q, line 47: wait_for returns the frame, and the caller goes on with it
q_resolved(t) ==
    /\ task[t].pc = "wait"
    /\ _fetch_futures[task[t].cmd].st = "done"
    /\ _fetch_futures' = with_exit(remove(_fetch_futures, task[t].cmd), task[t].cmd)
    /\ task' = [task EXCEPT ![t] = Resumed(@, _fetch_futures[task[t].cmd].val)]
    /\ _switches' = CachedAfter(task[t], _fetch_futures[task[t].cmd].val, _switches)
    /\ UNCHANGED <<_buffer, _last_response, calls, notified, feed, events, calc>>

\* lines 47, 50, 93: TimeoutError leaves _q, fetch and set_switch, none of
\* which catches it
timed_out_goes_on(r) ==
    IF r.op = "set_switch" THEN SendSwitch(r, NoSwitches)
    ELSE Finish(r, "TimeoutError")

timed_out(r) == Finish(r, "TimeoutError")

\* _q, line 47: wait_for gives up after TIMEOUT
q_timeout(t) ==
    /\ task[t].pc = "wait"
    /\ _fetch_futures[task[t].cmd].st = "pending"
    /\ deadline_passed(task[t].elapsed)
    /\ _fetch_futures' = with_exit(remove(_fetch_futures, task[t].cmd), task[t].cmd)
    /\ task' = [task EXCEPT ![t] = timed_out(@)]
    /\ UNCHANGED <<_buffer, _switches, _last_response, calls, notified, feed, events,
                   calc>>

\* set_switch, lines 106-108: the transport write of the 0xE1 frame returns
switch_write_done(t) ==
    /\ task[t].pc = "swrite"
    /\ task' = [task EXCEPT ![t] =
                  Finish([@ EXCEPT !.sent = Append(@,
                            jbd_message(WRITE_MARK, CMD_MOS, <<0, task[t].tc>>).bytes)],
                         "ok")]
    /\ UNCHANGED <<_buffer, _switches, _last_response, _fetch_futures, calls,
                   notified, feed, events, calc>>

switch_write_failed(t) ==
    /\ task[t].pc = "swrite"
    /\ task' = [task EXCEPT ![t] = Finish(@, "WriteError")]
    /\ UNCHANGED <<_buffer, _switches, _last_response, _fetch_futures, calls,
                   notified, feed, events, calc>>

\* one time unit passes for every request that waits on a pending waiter; time
\* does not pass a deadline before wait_for has acted on it
Waiting(t) == task[t].pc = "wait" /\ _fetch_futures[task[t].cmd].st = "pending"

tick ==
    /\ \E t \in Tasks : Waiting(t)
    /\ \A t \in Tasks : Waiting(t) => task[t].elapsed < TIMEOUT
    /\ task' = [t \in Tasks |->
                  IF Waiting(t) THEN [task[t] EXCEPT !.elapsed = @ + 1] ELSE task[t]]
    /\ UNCHANGED <<_buffer, _switches, _last_response, _fetch_futures, calls,
                   notified, feed, events, calc>>

\* the effect of _notification_handler(sender, data) on the instance; the
\* deadline of a request whose waiter it resolves no longer runs (wait_for
\* returns the result of a future that is done, whatever the clock says)
Deliver(data) ==
    LET h == _notification_handler(_buffer, data)
    IN  /\ _buffer' = h.buffer
        /\ IF h.complete
           THEN /\ _last_response' = <<h.frame>>
                /\ _fetch_futures' = set_result(_fetch_futures, h.command, h.frame)
           ELSE UNCHANGED <<_last_response, _fetch_futures>>
        /\ task' = [t \in Tasks |->
                      IF task[t].pc = "wait" /\ _fetch_futures'[task[t].cmd].st = "done"
                      THEN [task[t] EXCEPT !.elapsed = 0]
                      ELSE task[t]]

notify(data) ==
    /\ notified < MaxNotify
    /\ notified' = notified + 1
    /\ Deliver(data)
    /\ UNCHANGED <<_switches, calls, feed, events, calc>>

(* ------------------------------------------------------- what the device sends *)
\* a response frame: byte 1 echoes the command, the payload starts at byte 4
DeviceChecksum(cmd, payload) ==
    LET crc == (65536 - ((cmd + Len(payload) + SumSeq(payload)) % 65536)) % 65536
    IN  <<crc \div 256, crc % 256>>

Response(cmd, payload) ==
    <<START, cmd, 0, Len(payload)>> \o payload \o DeviceChecksum(cmd, payload)
        \o <<TERMINATOR>>

\* basic info: 3.00 V, raw current 100, soc 80 %, the MOS byte, one temperature
InfoPayload(mos) ==
    <<1, 44, 0, 100, 3, 232, 7, 208, 0, 5, 0, 0, 0, 0, 0, 0, 0, 0, 0,
      80, mos, 4, 1, 11, 115>>

InfoFrame(mos) == Response(CMD_INFO, InfoPayload(mos))

\* two cells of 3300 mV
VoltFrame == Response(CMD_VOLTAGES, <<12, 228, 12, 228>>)

\* the first two bytes of a basic-info response, the rest never sent
PartialInfo == <<START, CMD_INFO>>

\* a basic-info response that carries two payload bytes only
ShortInfo == Response(CMD_INFO, <<1, 44>>)

Chunks == {InfoFrame(3), VoltFrame, PartialInfo, ShortInfo}

SwitchNames == {"charge", "discharge"}

\* the names a caller may pass to set_switch: the two switches, and another
GivenNames == SwitchNames \cup {"pump"}

(* ---------------------------------------------------------- the specification *)
Next ==
    \/ \E t \in Tasks : fetch(t)
    \/ \E t \in Tasks : fetch_voltages(t)
    \/ \E t \in Tasks, sw \in SwitchNames, st \in BOOLEAN : set_switch(t, sw, st)
    \/ \E t \in Tasks : write_done(t)
    \/ \E t \in Tasks : write_failed(t)
    \/ \E t \in Tasks : q_resolved(t)
    \/ \E t \in Tasks : q_timeout(t)
    \/ \E t \in Tasks : switch_write_done(t)
    \/ \E t \in Tasks : switch_write_failed(t)
    \/ tick
    \/ \E data \in Chunks : notify(data)

Spec == Init /\ [][Next]_vars

\* The event loop runs every ready task, the transport write returns and the
\* clock advances.  The weak fairness of q_resolved(t) is written out, with its
\* enabling condition in the place of ENABLED <<q_resolved(t)>>_vars.
ResolvedReady(t) ==
    task[t].pc = "wait" /\ _fetch_futures[task[t].cmd].st = "done"

Fairness ==
    /\ WF_vars(tick)
    /\ \A t \in Tasks :
         /\ WF_vars(write_done(t))
         /\ ([]<>(~ResolvedReady(t)) \/ []<><<q_resolved(t)>>_vars)
         /\ WF_vars(q_timeout(t))
         /\ WF_vars(switch_write_done(t))

\* The same instance where the transport write always returns and the device
\* sends whole frames, well-formed or short.
LiveChunks == {InfoFrame(3), VoltFrame, ShortInfo}

NextLive ==
    \/ \E t \in Tasks : fetch(t)
    \/ \E t \in Tasks : fetch_voltages(t)
    \/ \E t \in Tasks, sw \in SwitchNames, st \in BOOLEAN : set_switch(t, sw, st)
    \/ \E t \in Tasks : write_done(t)
    \/ \E t \in Tasks : q_resolved(t)
    \/ \E t \in Tasks : q_timeout(t)
    \/ \E t \in Tasks : switch_write_done(t)
    \/ tick
    \/ \E data \in LiveChunks : notify(data)

FairSpec == Init /\ [][NextLive]_vars /\ Fairness

\* One caller, and a device that reports any of the four MOS states, or a
\* MOS byte that is none of them
SwitchChunks == {InfoFrame(mos) : mos \in 0..4}

NextSwitch ==
    \/ fetch("t1")
    \/ \E sw \in GivenNames, st \in BOOLEAN : set_switch("t1", sw, st)
    \/ write_done("t1")
    \/ write_failed("t1")
    \/ q_resolved("t1")
    \/ q_timeout("t1")
    \/ switch_write_done("t1")
    \/ switch_write_failed("t1")
    \/ tick
    \/ \E data \in SwitchChunks : notify(data)

SpecSwitch == Init /\ [][NextSwitch]_vars

(* ------------------------------------------------ a device that sends anything *)
\* a response frame whose length byte announces `length` payload bytes,
\* whatever it carries
ResponseOfLength(cmd, length, payload) ==
    LET crc == (65536 - ((cmd + length + SumSeq(payload)) % 65536)) % 65536
    IN  <<START, cmd, 0, length>> \o payload \o <<crc \div 256, crc % 256>>
            \o <<TERMINATOR>>

\* a cell-voltage response that announces two cells and carries one
ShortVolt == ResponseOfLength(CMD_VOLTAGES, 4, <<12, 228>>)

\* a basic-info response cut after its 17th payload byte
TruncInfo == Response(CMD_INFO, SubSeq(InfoPayload(3), 1, 17))

\* a basic-info response whose checksum bytes are not its checksum
CorruptInfo ==
    <<START, CMD_INFO, 0, Len(InfoPayload(1))>> \o InfoPayload(1) \o <<0, 0>>
        \o <<TERMINATOR>>

\* the device answering a MOSFET control write
MosAck == Response(CMD_MOS, <<>>)

DeviceChunks == {InfoFrame(3), TruncInfo, ShortVolt, CorruptInfo, MosAck, PartialInfo}

\* One caller, every operation of the driver
NextDevice ==
    \/ fetch("t1")
    \/ fetch_voltages("t1")
    \/ \E sw \in GivenNames, st \in BOOLEAN : set_switch("t1", sw, st)
    \/ debug_data("t1")
    \/ write_done("t1")
    \/ q_resolved("t1")
    \/ q_timeout("t1")
    \/ switch_write_done("t1")
    \/ tick
    \/ \E data \in DeviceChunks : notify(data)

SpecDevice == Init /\ [][NextDevice]_vars

(* ------------------------------------------- one frame, streamed in chunks *)
\* The device streams one well-formed response frame into a fresh instance,
\* cut into consecutive non-empty chunks at any places.
RECURSIVE SeqsUpTo(_, _)
SeqsUpTo(S, n) ==
    IF n = 0 THEN {<<>>}
    ELSE LET shorter == SeqsUpTo(S, n - 1)
         IN  shorter \cup {Append(q, x) : q \in shorter, x \in S}

PayloadBytes == {0, 12, TERMINATOR}

StreamedFrames ==
    {Response(cmd, payload) : cmd \in PoolKeys,
                              payload \in SeqsUpTo(PayloadBytes, MaxPayload)}

InitStream ==
    /\ _buffer = <<>>
    /\ _switches = NoSwitches
    /\ _last_response = <<>>
    /\ _fetch_futures = [c \in PoolKeys |-> NoWaiter]
    /\ task = [t \in Tasks |-> IdleTask]
    /\ calls = 0
    /\ notified = 0
    /\ feed \in {[frame |-> f, pos |-> 0] : f \in StreamedFrames}
    /\ events = <<>>
    /\ calc = NoCalc

\* the next n bytes of the frame arrive as one notification
stream_chunk(n) ==
    /\ feed.pos + n <= Len(feed.frame)
    /\ LET data == SubSeq(feed.frame, feed.pos + 1, feed.pos + n)
           h == _notification_handler(_buffer, data)
       IN  /\ Deliver(data)
           /\ events' = IF h.complete THEN Append(events, h.frame) ELSE events
    /\ feed' = [feed EXCEPT !.pos = @ + n]
    /\ UNCHANGED <<_switches, calls, notified, calc>>

NextStream == \E n \in 1..(4 + MaxPayload + 3) : stream_chunk(n)

SpecStream == InitStream /\ [][NextStream]_vars

(* ------------------------------------------------------- the handler, alone *)
\* The transport hands the handler any chunks at all: empty ones, single
\* bytes, the terminator on its own.
ChunkBytes == {START, CMD_INFO, TERMINATOR}

AnyChunks == SeqsUpTo(ChunkBytes, MaxPayload)

NextChunks == \E data \in AnyChunks : notify(data)

SpecChunks == Init /\ [][NextChunks]_vars

(* ------------------------------------------------------ the encoders, alone *)
DataBytes == {0, 1, 255}

InitEncode ==
    /\ _buffer = <<>>
    /\ _switches = NoSwitches
    /\ _last_response = <<>>
    /\ _fetch_futures = [c \in PoolKeys |-> NoWaiter]
    /\ task = [t \in Tasks |-> IdleTask]
    /\ calls = 0
    /\ notified = 0
    /\ feed = NoFeed
    /\ events = <<>>
    /\ calc \in {[phase |-> "args", fn |-> "", cmd |-> c, data |-> d, out |-> Ok(<<>>)] :
                    c \in 0..255, d \in SeqsUpTo(DataBytes, MaxDataLen)}

Apply(fn, out) ==
    /\ calc.phase = "args"
    /\ calc' = [calc EXCEPT !.phase = "result", !.fn = fn, !.out = out]
    /\ UNCHANGED <<_buffer, _switches, _last_response, _fetch_futures, task, calls,
                   notified, feed, events>>

call_jbd_command ==
    /\ calc.data = <<>>
    /\ Apply("_jbd_command", _jbd_command(calc.cmd))

call_jbd_checksum ==
    /\ calc.phase = "args"
    /\ Apply("jbd_checksum", jbd_checksum(calc.cmd, calc.data))

call_jbd_message ==
    /\ calc.phase = "args"
    /\ Apply("jbd_message", jbd_message(WRITE_MARK, calc.cmd, calc.data))

NextEncode == call_jbd_command \/ call_jbd_checksum \/ call_jbd_message

SpecEncode == InitEncode /\ [][NextEncode]_vars

(* ------------------------------------------------------------------ claims *)
InFlight(t) == task[t].pc \in {"write", "wait"}

IsPrefix(a, b) == Len(a) <= Len(b) /\ SubSeq(b, 1, Len(a)) = a

\* C1: a pending waiter for command c is resolved only by the handler emitting
\* a complete frame whose byte 1 is c, with that whole frame (the buffer and
\* the chunk that completed it); the frame is what _q hands to its caller, and
\* a resolved waiter is never given another frame.
C1_ResolvedOnlyByMatchingFrame ==
    [][/\ \A c \in PoolKeys :
            /\ (_fetch_futures[c].st = "pending" /\ _fetch_futures'[c].st = "done") =>
                  LET f == _fetch_futures'[c].val
                  IN  /\ f[Len(f)] = TERMINATOR
                      /\ f[2] = c
                      /\ IsPrefix(_buffer, f)
                      /\ _buffer' = <<>>
                      /\ _last_response' = <<f>>
            /\ (_fetch_futures[c].st = "done" /\ _fetch_futures'[c].st = "done") =>
                  _fetch_futures'[c].val = _fetch_futures[c].val
            /\ (_fetch_futures[c].st = "none") => (_fetch_futures'[c].st # "done")
       /\ \A t \in Tasks :
            (task[t].pc = "wait" /\ task'[t].pc # "wait"
                 /\ task'[t].outcome # "TimeoutError") =>
               /\ _fetch_futures[task[t].cmd].st = "done"
               /\ task'[t].buf = _fetch_futures[task[t].cmd].val
               /\ task'[t].buf[2] = task[t].cmd
      ]_vars

\* C1 witness: a fetch was resolved with the basic-info frame while a
\* fetch_voltages request is still waiting: the 0x03 frame did not resolve it.
C1_Witness ==
    \E t, u \in Tasks :
        /\ task[t].op = "fetch" /\ task[t].outcome = "ok"
        /\ task[t].buf = InfoFrame(3)
        /\ task[u].op = "fetch_voltages" /\ task[u].pc = "wait"
        /\ _fetch_futures[CMD_VOLTAGES].st = "pending"
        /\ _last_response = <<InfoFrame(3)>>

\* C2: once a well-formed frame has been streamed completely, in whatever
\* chunks, the handler has emitted exactly one complete frame, the whole
\* frame, and the buffer is empty; before that it has emitted none.
C2_OneEventPerFrame ==
    /\ feed.pos < Len(feed.frame) => events = <<>>
    /\ (feed.frame # <<>> /\ feed.pos = Len(feed.frame)) =>
          (events = <<feed.frame>> /\ _buffer = <<>>)

\* C3: the step in which a request times out leaves the frame buffer empty
\* (and the waiter slot released).
C3_TimeoutClearsBuffer ==
    [][\A t \in Tasks :
          (task[t].pc = "wait" /\ task'[t].outcome = "TimeoutError") =>
             (_buffer' = <<>> /\ _fetch_futures'[task[t].cmd].st = "none")
      ]_vars

\* C4: per command code at most one request is in flight, and the waiter of a
\* command is registered exactly while a request for it is in flight (from the
\* acquire to the resolve, the timeout or the failed write).
C4_OneWaiterPerCommand ==
    \A c \in PoolKeys :
        /\ Cardinality({t \in Tasks : InFlight(t) /\ task[t].cmd = c}) <= 1
        /\ (_fetch_futures[c].st # "none") <=>
              (\E t \in Tasks : InFlight(t) /\ task[t].cmd = c)

\* C4 witness: a second request for a command was refused while the first one
\* is still in flight and holds the waiter.
C4_Witness ==
    \E t, u \in Tasks :
        /\ t # u
        /\ InFlight(t) /\ task[t].cmd = CMD_INFO
        /\ _fetch_futures[CMD_INFO].st = "pending"
        /\ task[u].outcome = "Busy" /\ task[u].cmd = CMD_INFO

\* C5: requests for two different command codes are never both in flight
\* (written, and neither resolved nor timed out).
C5_SingleFlight ==
    \A t, u \in Tasks :
        (task[t].pc = "wait" /\ task[u].pc = "wait") => task[t].cmd = task[u].cmd

\* the table of the switch controller: the control byte of a {charge, discharge} pair
ExpectedByte(charge, discharge) ==
    IF charge /\ discharge THEN 0
    ELSE IF ~charge /\ ~discharge THEN 3
    ELSE IF ~charge /\ discharge THEN 1
    ELSE 2

SwitchDecided(t) ==
    task[t].op = "set_switch" /\ (task[t].pc = "swrite" \/ task[t].outcome = "ok")

\* C6: the control byte set_switch computes, and sends in the 0xE1 frame, is
\* the table's byte for the tentative pair: the cached state it read, with the
\* requested switch set to the requested value.
C6_ControlByteMatchesTable ==
    \A t \in Tasks :
        SwitchDecided(t) =>
            LET prior == task[t].basis
                charge == IF task[t].switch = "charge"
                          THEN task[t].state ELSE prior.charge
                discharge == IF task[t].switch = "discharge"
                             THEN task[t].state ELSE prior.discharge
            IN  /\ prior.known
                /\ task[t].pc = "swrite" => prior = _switches
                /\ task[t].tc = ExpectedByte(charge, discharge)
                /\ task[t].outcome = "ok" =>
                      LET frame == task[t].sent[Len(task[t].sent)]
                      IN  /\ SubSeq(frame, 1, 5) = <<START, WRITE_MARK, CMD_MOS, 2, 0>>
                          /\ frame[6] = ExpectedByte(charge, discharge)

\* C6 witness: from a cached both-off state, set_switch(discharge, on) has sent
\* control byte 0x01 (charge off, discharge on).
C6_Witness ==
    \E t \in Tasks :
        /\ task[t].op = "set_switch" /\ task[t].outcome = "ok"
        /\ task[t].basis = [known |-> TRUE, charge |-> FALSE, discharge |-> FALSE]
        /\ task[t].switch = "discharge" /\ task[t].state
        /\ task[t].sent[Len(task[t].sent)][6] = 1

\* C7: when set_switch(s, v) has completed, the cached SwitchState has s = v.
C7_SwitchCommandUpdatesCache ==
    \A t \in Tasks :
        (task[t].op = "set_switch" /\ task[t].outcome = "ok") =>
            IF task[t].switch = "charge"
            THEN _switches.charge = task[t].state
            ELSE _switches.discharge = task[t].state

BigEndian2(n) == <<n \div 256, n % 256>>

\* C8: jbd_checksum(cmd, data) returns, without an error, the big-endian two
\* bytes of (0x10000 - (cmd + len(data) + sum(data))) mod 0x10000.
C8_ChecksumIsModular ==
    (calc.phase = "result" /\ calc.fn = "jbd_checksum") =>
        calc.out = Ok(BigEndian2(
            (65536 - (calc.cmd + Len(calc.data) + SumSeq(calc.data))) % 65536))

\* C9: for c in 1..255, _jbd_command(c) is the 7-byte read frame with checksum
\* bytes 0xFF and (0xFF - (c - 1)) mod 256, and these two bytes are what
\* jbd_checksum(c, empty data) returns.
C9_ReadFrameMatchesChecksum ==
    (calc.phase = "result" /\ calc.fn = "_jbd_command" /\ calc.cmd \in 1..255) =>
        /\ calc.out = Ok(<<221, 165, calc.cmd, 0, 255,
                           (255 - (calc.cmd - 1)) % 256, 119>>)
        /\ jbd_checksum(calc.cmd, <<>>) = Ok(SubSeq(calc.out.bytes, 5, 6))

\* C9 witness: the read frame of command 0x03 has been encoded
C9_Witness ==
    /\ calc.phase = "result" /\ calc.fn = "_jbd_command" /\ calc.cmd = 3
    /\ calc.out.bytes = <<221, 165, 3, 0, 255, 253, 119>>

Calls(t) ==
    /\ task[t].pc = "idle"
    /\ calls' = calls + 1
    /\ \A u \in Tasks \ {t} : task'[u] = task[u]

\* C11: set_switch with a name other than "charge" and "discharge" fails at
\* once with the assertion's error: nothing was sent, no waiter was registered,
\* and the cached switches, the buffer and the last response are unchanged.
C11_UnknownSwitchRejected ==
    [][\A t \in Tasks :
          (Calls(t) /\ task'[t].op = "set_switch"
                /\ task'[t].switch \notin {"charge", "discharge"}) =>
             /\ task'[t].pc = "idle"
             /\ task'[t].outcome = "AssertionError"
             /\ task'[t].sent = <<>>
             /\ UNCHANGED <<_fetch_futures, _switches, _buffer, _last_response>>
      ]_vars

\* C11 witness: set_switch("pump", ...) was refused while the cached switches
\* are unknown, where a valid name would have sent the 0x03 read request.
C11_Witness ==
    \E t \in Tasks :
        /\ task[t].op = "set_switch" /\ task[t].switch = "pump"
        /\ task[t].outcome = "AssertionError" /\ task[t].sent = <<>>
        /\ ~_switches.known
        /\ \A c \in PoolKeys : _fetch_futures[c].st = "none"

\* the payload bytes a response frame carries, between header and checksum
Carried(frame) == Len(frame) - 7

\* a frame shorter than the decoder of operation op reads: the cell-voltage
\* decoder reads the length byte and two bytes per announced cell, the
\* telemetry decoder the 23 bytes of its fixed offsets and two bytes per
\* announced temperature
TooShort(op, frame) ==
    IF op = "fetch_voltages"
    THEN IF Len(frame) < 4 THEN TRUE
         ELSE Carried(frame) < 2 * (frame[4] \div 2)
    ELSE IF Carried(frame) < 23 THEN TRUE
         ELSE Carried(frame) < 23 + 2 * frame[27]

\* C12: a call that _q resumes with a complete frame too short for its decoder
\* fails: it returns neither a sample nor voltages, and the cached switches
\* stay as they were.
C12_ShortFrameFails ==
    [][\A t \in Tasks :
          (/\ task[t].pc = "wait" /\ task'[t].pc # "wait"
           /\ task'[t].buf # <<>>
           /\ TooShort(task[t].op, task'[t].buf)) =>
             /\ task'[t].pc = "idle"
             /\ task'[t].outcome \notin {"", "ok"}
             /\ task'[t].sample = <<>>
             /\ task'[t].voltages = <<>>
             /\ _switches' = _switches
      ]_vars

\* the switches of a MOS-state byte, as the table of the telemetry decoder
SwitchTable(m) ==
    IF m = 1 THEN [known |-> TRUE, charge |-> TRUE, discharge |-> FALSE]
    ELSE IF m = 2 THEN [known |-> TRUE, charge |-> FALSE, discharge |-> TRUE]
    ELSE IF m = 3 THEN [known |-> TRUE, charge |-> TRUE, discharge |-> TRUE]
    ELSE [known |-> TRUE, charge |-> FALSE, discharge |-> FALSE]

\* a fetch() has just returned to task t: the call was fetch(), or set_switch
\* going on after its fetch()
FetchReturns(t) ==
    /\ task[t].pc = "wait"
    /\ \/ task'[t].op = "fetch" /\ task'[t].pc = "idle" /\ task'[t].outcome = "ok"
       \/ task'[t].op = "set_switch" /\ task'[t].pc = "swrite"

\* C13: when fetch() returns a sample, the sample's switches and the cached
\* switches are both the table's pair for byte 20 after the 4-byte header of
\* the frame, whatever was cached before.
C13_CacheIsMosByte ==
    [][\A t \in Tasks :
          FetchReturns(t) =>
             /\ task'[t].sample # <<>>
             /\ task'[t].sample[1].switches = SwitchTable(task'[t].buf[25])
             /\ _switches' = SwitchTable(task'[t].buf[25])
      ]_vars

\* C13 witness: fetch() has returned on a frame whose MOS byte is 2, and on
\* one whose MOS byte is none of 0..3
C13_Witness ==
    \E t \in Tasks :
        /\ task[t].op = "fetch" /\ task[t].outcome = "ok"
        /\ \/ /\ task[t].buf = InfoFrame(2)
              /\ _switches = [known |-> TRUE, charge |-> FALSE, discharge |-> TRUE]
           \/ /\ task[t].buf = InfoFrame(4)
              /\ _switches = [known |-> TRUE, charge |-> FALSE, discharge |-> FALSE]
        /\ task[t].sample[1].switches = _switches

\* C14: from the start of the write on, a complete frame whose byte 1 is the
\* command of a request resolves it with that frame, also while the write has
\* not returned yet; a request that holds its frame does not time out, and
\* what _q returns is that frame.
C14_NoResponseLost ==
    [][\A t \in Tasks :
          LET c == task[t].cmd
          IN  /\ (/\ InFlight(t)
                  /\ _fetch_futures[c].st # "done"
                  /\ notified' = notified + 1
                  /\ _buffer' = <<>>
                  /\ _last_response'[1][2] = c) =>
                     _fetch_futures'[c] = [st |-> "done", val |-> _last_response'[1]]
              /\ (InFlight(t) /\ _fetch_futures[c].st = "done") =>
                     /\ task'[t].outcome # "TimeoutError"
                     /\ InFlight(t)' \/ task'[t].outcome = "WriteError"
                            \/ task'[t].buf = _fetch_futures[c].val
      ]_vars

\* C14 witness: the basic-info frame arrived while the write of the request
\* had not returned, and the waiter holds it
C14_Witness ==
    \E t \in Tasks :
        /\ task[t].pc = "write" /\ task[t].cmd = CMD_INFO
        /\ _fetch_futures[CMD_INFO] = [st |-> "done", val |-> InfoFrame(3)]

\* the 0x03 read request, and a 0xE1 write frame with a two-byte payload
InfoRead == <<221, 165, 3, 0, 255, 253, 119>>

IsSwitchWrite(frame) ==
    /\ Len(frame) = 9
    /\ SubSeq(frame, 1, 5) = <<221, 90, 225, 2, 0>>
    /\ frame[9] = 119

\* the control byte the table gives for the basis of task t with its one change
TableByte(t) ==
    ExpectedByte(IF task[t].switch = "charge" THEN task[t].state
                                                ELSE task[t].basis.charge,
                 IF task[t].switch = "discharge" THEN task[t].state
                                                   ELSE task[t].basis.discharge)

\* C15: set_switch with a valid name writes one 0xE1 frame and no other
\* write frame.  Called with the cached switches unknown it first writes the
\* 0x03 read request, and computes the control byte only when that request is
\* resolved, from the switches just fetched; called with the switches known,
\* both off included, it writes no read request.
C15_OneSwitchWrite ==
    /\ [](\A t \in Tasks :
            task[t].op = "set_switch" =>
              /\ task[t].pc = "swrite" =>
                    /\ task[t].sent \in {<<>>, <<InfoRead>>}
                    /\ task[t].sent = <<>> => task[t].sample = <<>>
                    /\ task[t].sent = <<InfoRead>> =>
                          /\ task[t].sample # <<>>
                          /\ task[t].basis = SwitchTable(task[t].buf[25])
                          /\ _fetch_futures[CMD_INFO].st = "none"
                    /\ task[t].tc = TableByte(t)
              /\ task[t].outcome = "ok" =>
                    LET n == Len(task[t].sent)
                    IN  /\ n \in {1, 2}
                        /\ IsSwitchWrite(task[t].sent[n])
                        /\ task[t].sent[n][6] = TableByte(t)
                        /\ n = 1 => task[t].sample = <<>>
                        /\ n = 2 =>
                              /\ task[t].sent[1] = InfoRead
                              /\ task[t].basis = SwitchTable(task[t].buf[25]))
    /\ [][\A t \in Tasks :
            (Calls(t) /\ task'[t].op = "set_switch"
                  /\ task'[t].switch \in {"charge", "discharge"}) =>
               IF _switches.known
               THEN /\ task'[t].pc = "swrite"
                    /\ task'[t].sent = <<>>
                    /\ task'[t].basis = _switches
                    /\ UNCHANGED _fetch_futures
               ELSE \/ task'[t].pc = "write" /\ task'[t].cmd = CMD_INFO
                    \/ task'[t].outcome = "Busy"
         ]_vars

\* C15 witness: set_switch(charge, on), called with the switches unknown, has
\* written the read request, fetched discharge-only, and then written control
\* byte 0x00
C15_Witness ==
    \E t \in Tasks :
        /\ task[t].op = "set_switch" /\ task[t].outcome = "ok"
        /\ task[t].switch = "charge" /\ task[t].state
        /\ task[t].buf = InfoFrame(2)
        /\ Len(task[t].sent) = 2 /\ task[t].sent[1] = InfoRead
        /\ task[t].sent[2][6] = 0

\* C16: when the fetch that set_switch makes for unknown switches times out,
\* set_switch ends with TimeoutError: the one read request is all it has
\* written, no control byte was computed, and the cached switches are unknown
\* as before.
C16_FetchTimeoutPropagates ==
    /\ [](\A t \in Tasks :
            (task[t].op = "set_switch" /\ task[t].outcome = "TimeoutError") =>
               /\ task[t].pc = "idle"
               /\ task[t].sent = <<InfoRead>>
               /\ task[t].tc = -1
               /\ ~_switches.known
               /\ _fetch_futures[CMD_INFO].st = "none")
    /\ [][\A t \in Tasks :
            (/\ task[t].op = "set_switch" /\ task[t].pc = "wait"
             /\ _fetch_futures[CMD_INFO].st = "pending"
             /\ _fetch_futures'[CMD_INFO].st # "done"
             /\ task'[t].pc # "wait") =>
               /\ task'[t].pc = "idle"
               /\ task'[t].outcome = "TimeoutError"
               /\ task'[t].sent = <<InfoRead>>
               /\ task[t].elapsed = TIMEOUT
               /\ _switches' = _switches
         ]_vars

\* C16 witness: set_switch(discharge, off) has timed out in its fetch
C16_Witness ==
    \E t \in Tasks :
        /\ task[t].op = "set_switch" /\ task[t].outcome = "TimeoutError"
        /\ task[t].switch = "discharge" /\ ~task[t].state
        /\ task[t].sent = <<InfoRead>>
        /\ _switches = NoSwitches

\* C17: set_switch holds no waiter while its 0xE1 write is under way and ends
\* in the step in which the write returns, no frame awaited; a complete frame
\* whose byte 1 is 0xE1 empties the buffer and becomes the last response, and
\* changes neither a waiter nor the course of any call.
C17_FireAndForget ==
    /\ [](/\ CMD_MOS \notin DOMAIN _fetch_futures
          /\ \A t \in Tasks :
                task[t].pc = "swrite" =>
                    \A c \in DOMAIN _fetch_futures : _fetch_futures[c].st = "none")
    /\ [][/\ \A t \in Tasks :
               (task[t].pc = "swrite" /\ task'[t].pc # "swrite") =>
                  /\ task'[t].pc = "idle"
                  /\ task'[t].outcome = "ok"
                  /\ IsSwitchWrite(task'[t].sent[Len(task'[t].sent)])
                  /\ UNCHANGED <<_fetch_futures, notified, _buffer, _last_response>>
          /\ (/\ notified' = notified + 1
              /\ _buffer' = <<>>
              /\ _last_response'[1][2] = CMD_MOS) =>
                 /\ _last_response'[1][Len(_last_response'[1])] = TERMINATOR
                 /\ UNCHANGED <<_fetch_futures, task, _switches>>
         ]_vars

\* C17 witness: the 0xE1 frame is the last response while a basic-info
\* request made after a completed set_switch is still pending
C17_Witness ==
    \E t \in Tasks :
        /\ task[t].op = "fetch" /\ task[t].pc = "wait"
        /\ _fetch_futures[CMD_INFO].st = "pending"
        /\ _switches.known /\ calls = 2
        /\ _last_response = <<MosAck>> /\ _buffer = <<>>

\* C18: between two notifications the buffer is empty or ends in a byte other
\* than 0x77.
C18_BufferNeverEndsInTerminator ==
    _buffer = <<>> \/ _buffer[Len(_buffer)] # TERMINATOR

\* C19: a complete frame whose checksum bytes are not the checksum of its own
\* command, length and payload becomes the last response and resolves the
\* pending waiter of its byte 1, and only that one, with the whole frame; the
\* caller decodes it like any other frame.
C19_FramesTrusted ==
    /\ [][(/\ notified' = notified + 1
           /\ _buffer' = <<>>
           /\ _last_response' # <<>>
           /\ BadChecksum(_last_response'[1])) =>
              LET f == _last_response'[1]
              IN  \A c \in PoolKeys :
                     IF c = f[2] /\ _fetch_futures[c].st = "pending"
                     THEN _fetch_futures'[c] = [st |-> "done", val |-> f]
                     ELSE _fetch_futures'[c] = _fetch_futures[c]
         ]_vars
    /\ [](\A t \in Tasks :
            (task[t].op = "fetch" /\ task[t].pc = "idle" /\ task[t].buf = CorruptInfo) =>
               /\ task[t].outcome = "ok"
               /\ task[t].sample[1].switches = SwitchTable(1)
               /\ task[t].sample[1].voltage_x100 = 300)

\* C19 witness: fetch() has returned the sample of a frame whose checksum
\* bytes are 00 00
C19_Witness ==
    \E t \in Tasks :
        /\ task[t].op = "fetch" /\ task[t].outcome = "ok"
        /\ task[t].buf = CorruptInfo /\ BadChecksum(task[t].buf)
        /\ _last_response = <<CorruptInfo>>
        /\ _switches = SwitchTable(1)

\* C20: the buffer and the last response change only in a step of the
\* notification handler, in which no call starts, moves or ends; the last
\* response changes only to the complete frame the handler emits in that step;
\* and debug_data returns the last response as it stands.
C20_OnlyHandlerWrites ==
    [][/\ (_buffer' # _buffer \/ _last_response' # _last_response) =>
             /\ notified' = notified + 1
             /\ calls' = calls
             /\ \A t \in Tasks :
                    /\ task'[t].pc = task[t].pc
                    /\ task'[t].outcome = task[t].outcome
       /\ (_last_response' # _last_response) =>
             LET f == _last_response'[1]
             IN  /\ f[Len(f)] = TERMINATOR
                 /\ IsPrefix(_buffer, f)
                 /\ _buffer' = <<>>
       /\ \A t \in Tasks :
             (Calls(t) /\ task'[t].op = "debug_data") =>
                /\ task'[t].pc = "idle"
                /\ task'[t].response = _last_response
                /\ UNCHANGED <<_buffer, _last_response, _fetch_futures, _switches>>
      ]_vars

\* C20 witness: debug_data, called after another call, has returned the 0xE1
\* frame, for which no waiter was ever registered
C20_Witness ==
    \E t \in Tasks :
        /\ task[t].op = "debug_data" /\ task[t].outcome = "ok"
        /\ task[t].response = <<MosAck>>
        /\ _last_response = <<MosAck>>
        /\ calls = 2

====
